---- MODULE Spec2Model ----
(***************************************************************************)
(* Model of the HttpServer / WebSocketServer registration and lifecycle    *)
(* layer (src/infra/http/utils).  Strings are sequences of one-character   *)
(* strings so that upper-casing, endsWith, includes and the slash           *)
(* normalisation of mount URLs are computed, not assumed.                   *)
(***************************************************************************)
EXTENDS Integers, Sequences, FiniteSets, TLC

\* ------------------------------------------------------------------ bounds
\* longest router list explored (createRoute is not called beyond it)
MaxRouters == 2
\* number of routesDirectory() invocations explored
MaxDirCalls == 2

\* handlers registered on the application with use()
MaxHandlers == 2
\* requests in flight together
MaxRequests == 2
MaxEvents == 2
MaxListeners == 4
MaxStartup == 2

\* ------------------------------------------------------------ input values
\* a JavaScript `undefined` argument / field, kept a sequence so that it can be
\* compared with the character sequences that model strings
Undefined == <<"undefined">>
\* a nullable field is a set: empty while null/undefined, else one value
Null == {}

Ports == {3000, 3001}
Callbacks == {"cbA", "cbB"}
\* arguments of setBaseUrl(): '/api' and 'v/' abbreviated
BaseUrlArgs == { <<"/", "a">>, <<"v", "/">> }
\* arguments of route(path, baseUrl)
PathArgs == { <<>>, <<"h">> }
RouteBaseArgs == { Undefined, <<"/", "x">> }

\* the directory scanned by routesDirectory(): file name, whether the module's
\* default export is callable, and the endpoint its setup(route) registers
RouteFiles ==
  << [name |-> <<"h", ".", "t", "s">>, callable |-> TRUE, registers |-> "health"],
     [name |-> <<"f", ".", "s", "p", "e", "c", ".", "t", "s">>, callable |-> TRUE,
      registers |-> "foo"],
     [name |-> <<"n", ".", "j", "s">>, callable |-> FALSE, registers |-> "none"] >>

\* the directory src/main/events scanned by eventsDirectory()
EventFiles ==
  << [name |-> <<"e", ".", "t", "s">>, callable |-> TRUE, registers |-> "ev"],
     [name |-> <<"g", ".", "t", "e", "s", "t", ".", "j", "s">>, callable |-> TRUE,
      registers |-> "gv"] >>

\* ---------------------------------------------------------- string helpers
Lower == <<"a", "c", "e", "f", "g", "h", "j", "n", "p", "s", "t", "v", "x">>
Upper == <<"A", "C", "E", "F", "G", "H", "J", "N", "P", "S", "T", "V", "X">>

UpperChar(c) ==
  IF \E i \in 1..Len(Lower) : Lower[i] = c
  THEN Upper[CHOOSE i \in 1..Len(Lower) : Lower[i] = c]
  ELSE c

\* String.prototype.toLocaleUpperCase
ToUpperCase(s) == [i \in 1..Len(s) |-> UpperChar(s[i])]

\* String.prototype.endsWith
EndsWith(s, e) ==
  /\ Len(e) <= Len(s)
  /\ SubSeq(s, Len(s) - Len(e) + 1, Len(s)) = e

\* String.prototype.includes
Includes(s, t) ==
  \E i \in 1..(Len(s) - Len(t) + 1) : SubSeq(s, i, i + Len(t) - 1) = t

\* String.prototype.replaceAll(/\/{2,}/g, '/')
RECURSIVE CollapseSlashes(_)
CollapseSlashes(s) ==
  IF Len(s) < 2 THEN s
  ELSE IF s[1] = "/" /\ s[2] = "/" THEN CollapseSlashes(Tail(s))
  ELSE <<s[1]>> \o CollapseSlashes(Tail(s))

\* `${baseUrl}/${path}`.replaceAll(/\/{2,}/g, '/')   (loadRoutes)
MountUrl(b, p) == CollapseSlashes(b \o <<"/">> \o p)

\* ?? (nullish coalescing)
Coalesce(v, d) == IF v = Undefined THEN d ELSE v

extensionsToSearch == << <<".", "T", "S">>, <<".", "J", "S">> >>
ignoreIfIncludes ==
  << <<".", "M", "A", "P", ".">>, <<".", "S", "P", "E", "C", ".">>,
     <<".", "T", "E", "S", "T", ".">> >>

\* a JavaScript array used as a condition: every object, the empty array and
\* an array of false included, is truthy
ArrayTruthy(arr) == TRUE

\* the test `haveAValidName && hasAValidExtension` of the directory loaders:
\* both operands are the arrays that .map() returns
FileAccepted(fileName) ==
  LET fileNameToUpperCase == ToUpperCase(fileName)
      hasAValidExtension ==
        [i \in 1..Len(ignoreIfIncludes) |->
           Includes(fileNameToUpperCase, ignoreIfIncludes[i])]
      haveAValidName ==
        [i \in 1..Len(extensionsToSearch) |->
           EndsWith(fileNameToUpperCase, extensionsToSearch[i])]
  IN ArrayTruthy(haveAValidName) /\ ArrayTruthy(hasAValidExtension)

\* ------------------------------------------------------------------- state
VARIABLES
  isStarted,             \* HttpServer.isStarted
  startWebSocketServer,  \* HttpServer.startWebSocketServer
  websocketServer,       \* HttpServer.websocketServer is assigned
  wsInstance,            \* WebSocketServer.instance (static) is assigned
  wsConnected,           \* the socket server has its 'connection' listener
  listenerOptions,       \* HttpServer.listenerOptions: Null or {[port, callback]}
  baseUrl,               \* HttpServer.baseUrl
  addressInfo,           \* HttpServer.addressInfo: Null or {port}
  server,                \* HttpServer.server: "undefined", "created", "listening", "closed"
  listenCount,           \* number of Server.listen() calls made on HttpServer.server
  routers,               \* HttpServer.routers
  routerStack,           \* what each express Router holds, by router id
  mounts,                \* the routers mounted on the express application, in order
  events,                \* WebSocketServer.events
  la,                    \* the listenAsync() call that passed the isStarted guard
  dirCalls,              \* routesDirectory() calls, each suspended at an await or finished
  call,                  \* the last call made on the API and what it returned
  implicitBase,          \* history: routers registered without an explicit baseUrl
  servedBase,            \* history: baseUrl when the server was first obtained or started
  appStack,              \* the adapted handlers use() put on the express application
  reqs,                  \* the requests being handled, by request id
  wsListeners,           \* the event names the socket server has a listener for, one per on()
  startupCallbacks,      \* HttpServer.startupCallbacks
  promises,              \* the promises listenAsync() made of the startup callbacks
  onStartRegistered      \* history: the callbacks passed to onStart() before listenAsync()

vars ==
  << isStarted, startWebSocketServer, websocketServer, wsInstance, wsConnected,
     listenerOptions, baseUrl, addressInfo, server, listenCount, routers,
     routerStack, mounts, events, la, dirCalls, call, implicitBase, servedBase,
     appStack, reqs,
                  wsListeners, startupCallbacks, promises, onStartRegistered >>

\* what the registration and lifecycle calls read and write
registryVars ==
  << isStarted, startWebSocketServer, websocketServer, wsInstance, wsConnected,
     listenerOptions, baseUrl, addressInfo, server, listenCount, routers,
     routerStack, mounts, events, la, dirCalls, call, implicitBase, servedBase,
     wsListeners, startupCallbacks, promises, onStartRegistered >>

\* what request handling reads and writes
requestVars == << appStack, reqs >>

Called(op, url, base, ret, router) ==
  [op |-> op, url |-> url, base |-> base, ret |-> ret, router |-> router]

Init ==
  /\ isStarted = FALSE
  /\ startWebSocketServer = FALSE
  /\ websocketServer = FALSE
  /\ wsInstance = FALSE
  /\ wsConnected = FALSE
  /\ listenerOptions = Null
  /\ baseUrl = <<>>
  /\ addressInfo = Null
  /\ server = "undefined"
  /\ listenCount = 0
  /\ routers = <<>>
  /\ routerStack = <<>>
  /\ mounts = <<>>
  /\ events = <<>>
  /\ la = [pc |-> "idle", port |-> 0, callback |-> "none", idx |-> 0]
  /\ dirCalls = <<>>
  /\ call = Called("new", Undefined, Undefined, "ok", 0)
  /\ implicitBase = {}
  /\ servedBase = Null
  /\ appStack = <<>>
  /\ reqs = [id \in {} |-> 0]
  /\ wsListeners = <<>>
  /\ startupCallbacks = <<>>
  /\ promises = <<>>
  /\ onStartRegistered = {}

\* ------------------------------------------------------------- loadRoutes
\* the entries loadRoutes() mounts, in list order, with the URL it computes
RECURSIVE NewMounts(_, _)
NewMounts(rs, b) ==
  IF rs = <<>> THEN <<>>
  ELSE LET r == Head(rs)
           url == MountUrl(Coalesce(r.baseUrl, b), Coalesce(r.path, <<>>))
       IN (IF r.loaded THEN <<>> ELSE << [url |-> url, router |-> r.router] >>)
          \o NewMounts(Tail(rs), b)

\* loadRoutes() leaving the loaded flags as they are
LeaveUnloaded(rs) == rs

\* route.loaded = true for every entry
MarkLoaded(rs) == [i \in 1..Len(rs) |-> [rs[i] EXCEPT !.loaded = TRUE]]

\* HttpServer.loadRoutes applied to the router list rs
loadRoutes(rs) ==
  /\ mounts' = mounts \o NewMounts(rs, baseUrl)
  /\ routers' = MarkLoaded(rs)

\* history: the base URL in force when the server is first obtained or started
Serve == servedBase' = IF servedBase = Null THEN {baseUrl} ELSE servedBase

\* ------------------------------------------------- HttpServer: lifecycle
\* setWebSocketServerOptions(options)
SetWebSocketServerOptions ==
  /\ startWebSocketServer' = TRUE
  /\ call' = Called("setWebSocketServerOptions", Undefined, Undefined, "ok", 0)
  /\ UNCHANGED << isStarted, websocketServer, wsInstance, wsConnected, listenerOptions,
                  baseUrl, addressInfo, server, listenCount, routers, routerStack,
                  mounts, events, la, dirCalls, implicitBase, servedBase, appStack, reqs,
                  wsListeners, startupCallbacks, promises, onStartRegistered >>

\* listen() without its isStarted guard
ListenUnguarded(port, callback) ==
  /\ isStarted' = TRUE
  /\ loadRoutes(routers)
  /\ listenerOptions' = {[port |-> port, callback |-> callback]}
  /\ server' = "listening"
  /\ listenCount' = listenCount + 1
  /\ addressInfo' = {port}
  /\ Serve
  /\ call' = Called("listen", Undefined, Undefined, "server", 0)
  /\ UNCHANGED << startWebSocketServer, websocketServer, wsInstance, wsConnected,
                  baseUrl, routerStack, events, la, dirCalls, implicitBase,
                  appStack, reqs,
                  wsListeners, startupCallbacks, promises, onStartRegistered >>

\* listen(port, callback)
Listen(port, callback) ==
  IF isStarted
  THEN /\ call' = Called("listen", Undefined, Undefined, "undefined", 0)
       /\ UNCHANGED << isStarted, startWebSocketServer, websocketServer, wsInstance,
                       wsConnected, listenerOptions, baseUrl, addressInfo, server,
                       listenCount, routers, routerStack, mounts, events, la,
                       dirCalls, implicitBase, servedBase, appStack, reqs,
                  wsListeners, startupCallbacks, promises, onStartRegistered >>
  ELSE /\ isStarted' = TRUE
       /\ loadRoutes(routers)
       /\ listenerOptions' = {[port |-> port, callback |-> callback]}
       /\ server' = "listening"
       /\ listenCount' = listenCount + 1
       /\ addressInfo' = {port}
       /\ Serve
       /\ call' = Called("listen", Undefined, Undefined, "server", 0)
       /\ UNCHANGED << startWebSocketServer, websocketServer, wsInstance, wsConnected,
                       baseUrl, routerStack, events, la, dirCalls, implicitBase,
                       appStack, reqs,
                  wsListeners, startupCallbacks, promises, onStartRegistered >>

\* getServer()
GetServer ==
  /\ loadRoutes(routers)
  /\ Serve
  /\ call' = Called("getServer", Undefined, Undefined, "server", 0)
  /\ UNCHANGED << isStarted, startWebSocketServer, websocketServer, wsInstance,
                  wsConnected, listenerOptions, baseUrl, addressInfo, server,
                  listenCount, routerStack, events, la, dirCalls, implicitBase,
                  appStack, reqs,
                  wsListeners, startupCallbacks, promises, onStartRegistered >>

\* the callbacks modules hand to onStart()
StartupNames == {"s1", "s2", "s3"}

\* the lists onStart() is called with: callbacks that differ from one another
OnStartArgs ==
  { l \in UNION { [1..n -> StartupNames] : n \in 0..MaxStartup } :
      \A i, j \in 1..Len(l) : l[i] = l[j] => i = j }

\* onStart(callbacks): this.startupCallbacks = callbackList
OnStart(callbackList) ==
  /\ startupCallbacks' = callbackList
  /\ onStartRegistered' =
       IF la.pc = "idle"
       THEN onStartRegistered \cup { callbackList[i] : i \in 1..Len(callbackList) }
       ELSE onStartRegistered
  /\ call' = Called("onStart", Undefined, Undefined, "undefined", 0)
  /\ UNCHANGED << isStarted, startWebSocketServer, websocketServer, wsInstance,
                  wsConnected, listenerOptions, baseUrl, addressInfo, server,
                  listenCount, routers, routerStack, mounts, events, la, dirCalls,
                  implicitBase, servedBase, appStack, reqs, wsListeners, promises >>

\* this.startupCallbacks.map(async (callback) => callback?.()): every callback
\* of the list is called, each call giving a promise
InvokeAll(callbacks) ==
  [i \in 1..Len(callbacks) |-> [callback |-> callbacks[i], status |-> "pending"]]

\* listenAsync(port, callback) up to its first await (Promise.all)
ListenAsync(port, callback) ==
  IF isStarted
  THEN /\ call' = Called("listenAsync", Undefined, Undefined, "undefined", 0)
       /\ UNCHANGED << isStarted, startWebSocketServer, websocketServer, wsInstance,
                       wsConnected, listenerOptions, baseUrl, addressInfo, server,
                       listenCount, routers, routerStack, mounts, events, la,
                       dirCalls, implicitBase, servedBase, appStack, reqs,
                  wsListeners, startupCallbacks, promises, onStartRegistered >>
  ELSE /\ isStarted' = TRUE
       /\ promises' = InvokeAll(startupCallbacks)
       /\ la' = [pc |-> "startup", port |-> port, callback |-> callback, idx |-> 0]
       /\ Serve
       /\ call' = Called("listenAsync", Undefined, Undefined, "pending", 0)
       /\ UNCHANGED << startWebSocketServer, websocketServer, wsInstance, wsConnected,
                       listenerOptions, baseUrl, addressInfo, server, listenCount,
                       routers, routerStack, mounts, events, dirCalls, implicitBase,
                       appStack, reqs, wsListeners, startupCallbacks,
                       onStartRegistered >>

\* a startup callback's promise settles
SettleStartup(i, outcome) ==
  /\ i \in 1..Len(promises)
  /\ promises[i].status = "pending"
  /\ promises' = [promises EXCEPT ![i].status = outcome]
  /\ call' = Called("startupCallback", Undefined, Undefined, outcome, 0)
  /\ UNCHANGED << isStarted, startWebSocketServer, websocketServer, wsInstance,
                  wsConnected, listenerOptions, baseUrl, addressInfo, server,
                  listenCount, routers, routerStack, mounts, events, la, dirCalls,
                  implicitBase, servedBase, appStack, reqs, wsListeners,
                  startupCallbacks, onStartRegistered >>

\* listenAsync() going on without awaiting the promises
PromiseAllNotAwaited(ps) == "fulfilled"

\* Promise.all(promises): rejected as soon as one promise is, fulfilled when all are
PromiseAll(ps) ==
  IF \E i \in 1..Len(ps) : ps[i].status = "rejected" THEN "rejected"
  ELSE IF \A i \in 1..Len(ps) : ps[i].status = "fulfilled" THEN "fulfilled"
  ELSE "pending"

\* listenAsync resumed after Promise.all: loadRoutes, listenerOptions, createServer,
\* then initializeWebSocketServer up to its await.  WebSocketServer.getInstance is
\* handed this.server, an http.Server: when no instance exists yet its constructor
\* calls getServer() on it, which http.Server does not have.
ListenAsyncCreate ==
  /\ la.pc = "startup"
  /\ PromiseAll(promises) # "pending"
  /\ IF PromiseAll(promises) = "rejected"
     THEN /\ la' = [la EXCEPT !.pc = "failed"]
          /\ call' = Called("listenAsync.resume", Undefined, Undefined, "rejected", 0)
          /\ UNCHANGED << routers, mounts, listenerOptions, server, websocketServer >>
     ELSE /\ loadRoutes(routers)
          /\ listenerOptions' = {[port |-> la.port, callback |-> la.callback]}
          /\ server' = "created"
          /\ IF ~startWebSocketServer
             THEN /\ la' = [la EXCEPT !.pc = "connect"]
                  /\ call' = Called("listenAsync.resume", Undefined, Undefined, "pending", 0)
                  /\ UNCHANGED websocketServer
             ELSE IF ~wsInstance
             THEN /\ la' = [la EXCEPT !.pc = "failed"]
                  /\ call' = Called("listenAsync.resume", Undefined, Undefined, "TypeError", 0)
                  /\ UNCHANGED websocketServer
             ELSE /\ websocketServer' = TRUE
                  /\ la' = [la EXCEPT !.pc = "events", !.idx = 1]
                  /\ call' = Called("listenAsync.resume", Undefined, Undefined, "pending", 0)
  /\ UNCHANGED << isStarted, startWebSocketServer, wsInstance, wsConnected, baseUrl,
                  addressInfo, listenCount, routerStack, events, dirCalls,
                  implicitBase, servedBase, appStack, reqs,
                  wsListeners, startupCallbacks, promises, onStartRegistered >>

\* register() without its `if (!options.enabled) return`
registerUnguarded(evs, name, enabled) ==
  Append(evs, [name |-> name, enabled |-> enabled])

\* WebSocketServer.register(options, ...callbacks) applied to the event list evs
register(evs, name, enabled) ==
  IF ~enabled THEN evs ELSE Append(evs, [name |-> name, enabled |-> enabled])

\* one iteration of the for-await loop of eventsDirectory(), or its return
ListenAsyncEventsFile ==
  /\ la.pc = "events"
  /\ IF la.idx <= Len(EventFiles)
     THEN LET file == EventFiles[la.idx]
          IN /\ events' = IF FileAccepted(file.name) /\ file.callable
                          THEN register(events, file.registers, TRUE)
                          ELSE events
             /\ la' = [la EXCEPT !.idx = la.idx + 1]
     ELSE /\ la' = [la EXCEPT !.pc = "connect"]
          /\ UNCHANGED events
  /\ call' = Called("listenAsync.resume", Undefined, Undefined, "pending", 0)
  /\ UNCHANGED << isStarted, startWebSocketServer, websocketServer, wsInstance,
                  wsConnected, listenerOptions, baseUrl, addressInfo, server,
                  listenCount, routers, routerStack, mounts, dirCalls, implicitBase,
                  servedBase, appStack, reqs,
                  wsListeners, startupCallbacks, promises, onStartRegistered >>

\* listenAsync after initializeWebSocketServer: this.websocketServer.connect(),
\* server.listen(port, callback), addressInfo
ListenAsyncBind ==
  /\ la.pc = "connect"
  /\ IF ~websocketServer
     THEN /\ la' = [la EXCEPT !.pc = "failed"]
          /\ call' = Called("listenAsync.resume", Undefined, Undefined, "TypeError", 0)
          /\ UNCHANGED << wsConnected, server, listenCount, addressInfo >>
     ELSE /\ wsConnected' = TRUE
          /\ server' = "listening"
          /\ listenCount' = listenCount + 1
          /\ addressInfo' = {la.port}
          /\ la' = [la EXCEPT !.pc = "done"]
          /\ call' = Called("listenAsync.resume", Undefined, Undefined, "server", 0)
  /\ UNCHANGED << isStarted, startWebSocketServer, websocketServer, wsInstance,
                  listenerOptions, baseUrl, routers, routerStack, mounts, events,
                  dirCalls, implicitBase, servedBase, appStack, reqs,
                  wsListeners, startupCallbacks, promises, onStartRegistered >>

\* http.Server.close(): a listening server stops listening; on a server that is
\* not listening the error goes to the callback and nothing changes
ServerClosed(st) == IF st = "listening" THEN "closed" ELSE st

\* refresh(): this.server.close(...) then this.listen(port, callback), which
\* returns at its isStarted guard
Refresh ==
  /\ IF ~isStarted
     THEN /\ call' = Called("refresh", Undefined, Undefined, "undefined", 0)
          /\ UNCHANGED server
     ELSE IF server = "undefined"
     THEN /\ call' = Called("refresh", Undefined, Undefined, "TypeError", 0)
          /\ UNCHANGED server
     ELSE /\ server' = ServerClosed(server)
          /\ call' = Called("refresh", Undefined, Undefined, "ok", 0)
  /\ UNCHANGED << isStarted, startWebSocketServer, websocketServer, wsInstance,
                  wsConnected, listenerOptions, baseUrl, addressInfo, listenCount,
                  routers, routerStack, mounts, events, la, dirCalls, implicitBase,
                  servedBase, appStack, reqs,
                  wsListeners, startupCallbacks, promises, onStartRegistered >>

\* this.websocketServer.close(): the field is undefined unless listenAsync assigned
\* it, and class WebSocketServer declares no close method
WebSocketServerClose == "TypeError"

\* close()
Close ==
  /\ IF ~isStarted
     THEN /\ call' = Called("close", Undefined, Undefined, "undefined", 0)
          /\ UNCHANGED server
     ELSE IF server = "undefined"
     THEN /\ call' = Called("close", Undefined, Undefined, "TypeError", 0)
          /\ UNCHANGED server
     ELSE /\ server' = ServerClosed(server)
          /\ call' = Called("close", Undefined, Undefined,
                            IF ~startWebSocketServer THEN "ok" ELSE WebSocketServerClose,
                            0)
  /\ UNCHANGED << isStarted, startWebSocketServer, websocketServer, wsInstance,
                  wsConnected, listenerOptions, baseUrl, addressInfo, listenCount,
                  routers, routerStack, mounts, events, la, dirCalls, implicitBase,
                  servedBase, appStack, reqs,
                  wsListeners, startupCallbacks, promises, onStartRegistered >>

\* setBaseUrl() without its isStarted guard
SetBaseUrlUnguarded(url) ==
  /\ baseUrl' = url
  /\ call' = Called("setBaseUrl", url, Undefined, "ok", 0)
  /\ UNCHANGED << isStarted, startWebSocketServer, websocketServer, wsInstance,
                  wsConnected, listenerOptions, addressInfo, server, listenCount,
                  routers, routerStack, mounts, events, la, dirCalls, implicitBase,
                  servedBase, appStack, reqs,
                  wsListeners, startupCallbacks, promises, onStartRegistered >>

\* setBaseUrl(url)
SetBaseUrl(url) ==
  /\ IF isStarted
     THEN /\ call' = Called("setBaseUrl", url, Undefined, "warn", 0)
          /\ UNCHANGED baseUrl
     ELSE /\ baseUrl' = url
          /\ call' = Called("setBaseUrl", url, Undefined, "ok", 0)
  /\ UNCHANGED << isStarted, startWebSocketServer, websocketServer, wsInstance,
                  wsConnected, listenerOptions, addressInfo, server, listenCount,
                  routers, routerStack, mounts, events, la, dirCalls, implicitBase,
                  servedBase, appStack, reqs,
                  wsListeners, startupCallbacks, promises, onStartRegistered >>

\* WebSocketServer.getInstance(httpServer) called with the HttpServer by the
\* application: the first call constructs the instance, whose constructor calls
\* httpServer.getServer()
WebSocketServerGetInstance ==
  /\ IF wsInstance
     THEN UNCHANGED << routers, mounts, servedBase >>
     ELSE loadRoutes(routers) /\ Serve
  /\ wsInstance' = TRUE
  /\ call' = Called("WebSocketServer.getInstance", Undefined, Undefined, "ok", 0)
  /\ UNCHANGED << isStarted, startWebSocketServer, websocketServer, wsConnected,
                  listenerOptions, baseUrl, addressInfo, server, listenCount,
                  routerStack, events, la, dirCalls, implicitBase, appStack, reqs,
                  wsListeners, startupCallbacks, promises, onStartRegistered >>

\* the event names modules register, enabled or not
EventNames == {"ev", "off"}

\* register(options, ...callbacks) called on the WebSocketServer instance
Register(name, enabled) ==
  /\ wsInstance
  /\ Len(events) < MaxEvents
  /\ events' = register(events, name, enabled)
  /\ call' = Called("register", <<name>>, Undefined,
                    IF enabled THEN "enabled" ELSE "disabled", 0)
  /\ UNCHANGED << isStarted, startWebSocketServer, websocketServer, wsInstance,
                  wsConnected, listenerOptions, baseUrl, addressInfo, server,
                  listenCount, routers, routerStack, mounts, la, dirCalls,
                  implicitBase, servedBase, appStack, reqs, wsListeners,
                  startupCallbacks, promises, onStartRegistered >>

\* the server.on(event.options.name, ...) calls made over this.events, appended
\* to the listeners the socket server has
BindAll(evs, listeners) ==
  listeners \o [i \in 1..Len(evs) |-> [name |-> evs[i].name, descriptor |-> i]]

\* loadEvents()
LoadEvents ==
  /\ wsInstance
  /\ Len(wsListeners) + Len(events) <= MaxListeners
  /\ wsListeners' = BindAll(events, wsListeners)
  /\ call' = Called("loadEvents", Undefined, Undefined, "ok", 0)
  /\ UNCHANGED << isStarted, startWebSocketServer, websocketServer, wsInstance,
                  wsConnected, listenerOptions, baseUrl, addressInfo, server,
                  listenCount, routers, routerStack, mounts, events, la, dirCalls,
                  implicitBase, servedBase, appStack, reqs, startupCallbacks,
                  promises, onStartRegistered >>

\* loadEventsAsync(): the async functions it maps over this.events call
\* server.on() before they first suspend, so every listener is bound by the
\* time the call returns its promise
LoadEventsAsync ==
  /\ wsInstance
  /\ Len(wsListeners) + Len(events) <= MaxListeners
  /\ wsListeners' = BindAll(events, wsListeners)
  /\ call' = Called("loadEventsAsync", Undefined, Undefined, "pending", 0)
  /\ UNCHANGED << isStarted, startWebSocketServer, websocketServer, wsInstance,
                  wsConnected, listenerOptions, baseUrl, addressInfo, server,
                  listenCount, routers, routerStack, mounts, events, la, dirCalls,
                  implicitBase, servedBase, appStack, reqs, startupCallbacks,
                  promises, onStartRegistered >>

\* --------------------------------------------------- HttpServer: routers
\* getRoute()'s lookup without its !route.hidden test
FindRouteAmongAll(rs, path, base) ==
  LET hits == { i \in 1..Len(rs) : rs[i].path = path /\ rs[i].baseUrl = base }
  IN IF hits = {} THEN 0 ELSE CHOOSE i \in hits : \A j \in hits : i <= j

\* the entry getRoute() finds: the first non-hidden one with this path and
\* baseUrl (===), 0 when find() returns undefined
FindRoute(rs, path, base) ==
  LET hits == { i \in 1..Len(rs) :
                  rs[i].path = path /\ rs[i].baseUrl = base /\ ~rs[i].hidden }
  IN IF hits = {} THEN 0 ELSE CHOOSE i \in hits : \A j \in hits : i <= j

\* express Router(): a router object distinct from every earlier one
NewRouter(rs) == Len(rs) + 1

\* createRoute({path, baseUrl, hidden}) applied to the router list
createRoute(rs, path, base, hidden) ==
  Append(rs, [path |-> path, baseUrl |-> base, router |-> NewRouter(rs),
              loaded |-> FALSE, hidden |-> hidden])

\* getRoute(path, baseUrl)
GetRoute(path, base) ==
  /\ call' = LET i == FindRoute(routers, path, base)
             IN IF i = 0 THEN Called("getRoute", path, base, "undefined", 0)
                ELSE Called("getRoute", path, base, "route", routers[i].router)
  /\ UNCHANGED << isStarted, startWebSocketServer, websocketServer, wsInstance,
                  wsConnected, listenerOptions, baseUrl, addressInfo, server,
                  listenCount, routers, routerStack, mounts, events, la, dirCalls,
                  implicitBase, servedBase, appStack, reqs,
                  wsListeners, startupCallbacks, promises, onStartRegistered >>

\* route(path, baseUrl)
Route(path, base) ==
  /\ LET i == FindRoute(routers, path, base)
     IN IF i # 0
        THEN /\ call' = Called("route", path, base, "route", routers[i].router)
             /\ UNCHANGED << routers, routerStack, implicitBase >>
        ELSE /\ Len(routers) < MaxRouters
             /\ routers' = createRoute(routers, path, base, FALSE)
             /\ routerStack' = Append(routerStack, <<>>)
             /\ implicitBase' = IF base = Undefined
                                THEN implicitBase \cup {NewRouter(routers)}
                                ELSE implicitBase
             /\ call' = Called("route", path, base, "route", NewRouter(routers))
  /\ UNCHANGED << isStarted, startWebSocketServer, websocketServer, wsInstance,
                  wsConnected, listenerOptions, baseUrl, addressInfo, server,
                  listenCount, mounts, events, la, dirCalls, servedBase, appStack, reqs,
                  wsListeners, startupCallbacks, promises, onStartRegistered >>

\* the first argument of routesDirectory(path, arg1, ...args)
DirArgs ==
  { [kind |-> "none", base |-> Undefined, route |-> 0],
    [kind |-> "middleware", base |-> Undefined, route |-> 0],
    [kind |-> "baseUrl", base |-> <<"/", "x">>, route |-> 0] }
  \cup { [kind |-> "route", base |-> Undefined, route |-> r] : r \in 1..MaxRouters + 1 }

\* Route.use / Route.get on the router behind a handle: one more layer on it
AddLayer(stack, r, layer) == [stack EXCEPT ![r] = Append(stack[r], layer)]

\* routesDirectory(path, arg1) up to the first await of its for-await loop:
\* the base URL is read, the hidden route created and the middlewares applied.
\* A Route passed as arg1 is a handle that route()/getRoute() returned.
RoutesDirectory(arg1) ==
  /\ Len(dirCalls) < MaxDirCalls
  /\ IF arg1.kind = "route"
     THEN /\ \E i \in 1..Len(routers) :
               routers[i].router = arg1.route /\ ~routers[i].hidden
          /\ dirCalls' = Append(dirCalls, [route |-> arg1.route, idx |-> 1, pc |-> "files"])
          /\ UNCHANGED << routers, routerStack, implicitBase >>
     ELSE /\ Len(routers) < MaxRouters
          /\ routers' = createRoute(routers, <<>>,
                                    IF arg1.kind = "baseUrl" THEN arg1.base ELSE baseUrl,
                                    TRUE)
          /\ routerStack' = Append(routerStack,
                                   IF arg1.kind = "middleware" THEN <<"middleware">>
                                   ELSE <<>>)
          /\ implicitBase' = IF arg1.kind = "baseUrl" THEN implicitBase
                             ELSE implicitBase \cup {NewRouter(routers)}
          /\ dirCalls' = Append(dirCalls,
                                [route |-> NewRouter(routers), idx |-> 1, pc |-> "files"])
  /\ call' = Called("routesDirectory", Undefined, arg1.base, "pending", 0)
  /\ UNCHANGED << isStarted, startWebSocketServer, websocketServer, wsInstance,
                  wsConnected, listenerOptions, baseUrl, addressInfo, server,
                  listenCount, mounts, events, la, servedBase, appStack, reqs,
                  wsListeners, startupCallbacks, promises, onStartRegistered >>

\* one iteration of the for-await loop of routesDirectory(): the file test, the
\* import and setup(route)
RoutesDirectoryFile(c) ==
  /\ c \in 1..Len(dirCalls)
  /\ dirCalls[c].pc = "files"
  /\ dirCalls[c].idx <= Len(RouteFiles)
  /\ LET file == RouteFiles[dirCalls[c].idx]
     IN routerStack' = IF FileAccepted(file.name) /\ file.callable
                       THEN AddLayer(routerStack, dirCalls[c].route, file.registers)
                       ELSE routerStack
  /\ dirCalls' = [dirCalls EXCEPT ![c].idx = dirCalls[c].idx + 1]
  /\ call' = Called("routesDirectory.resume", Undefined, Undefined, "pending", 0)
  /\ UNCHANGED << isStarted, startWebSocketServer, websocketServer, wsInstance,
                  wsConnected, listenerOptions, baseUrl, addressInfo, server,
                  listenCount, routers, mounts, events, la, implicitBase, servedBase,
                  appStack, reqs,
                  wsListeners, startupCallbacks, promises, onStartRegistered >>

\* routesDirectory() after the loop: this.loadRoutes()
RoutesDirectoryLoad(c) ==
  /\ c \in 1..Len(dirCalls)
  /\ dirCalls[c].pc = "files"
  /\ dirCalls[c].idx > Len(RouteFiles)
  /\ loadRoutes(routers)
  /\ dirCalls' = [dirCalls EXCEPT ![c].pc = "done"]
  /\ call' = Called("routesDirectory.resume", Undefined, Undefined, "ok", 0)
  /\ UNCHANGED << isStarted, startWebSocketServer, websocketServer, wsInstance,
                  wsConnected, listenerOptions, baseUrl, addressInfo, server,
                  listenCount, routerStack, events, la, implicitBase, servedBase,
                  appStack, reqs,
                  wsListeners, startupCallbacks, promises, onStartRegistered >>

\* ---------------------------------------------------- request adaptation
\* convertSnakeCaseKeysToCamelCase on one key: an underscore followed by a
\* character is dropped and the character upper-cased
RECURSIVE SnakeToCamel(_)
SnakeToCamel(k) ==
  IF k = <<>> THEN <<>>
  ELSE IF k[1] = "_" /\ Len(k) >= 2
  THEN <<UpperChar(k[2])>> \o SnakeToCamel(SubSeq(k, 3, Len(k)))
  ELSE <<k[1]>> \o SnakeToCamel(Tail(k))

\* convertSnakeCaseKeysToCamelCase on a mapping, a set of entries each with a key
\* and the keys of the mapping nested under it
convertSnakeCaseKeysToCamelCase(m) ==
  { [key |-> SnakeToCamel(e.key), sub |-> { SnakeToCamel(k) : k \in e.sub }] : e \in m }

\* mappings that arrive as body, params or query
Mappings ==
  { { [key |-> <<"a">>, sub |-> {}] },
    { [key |-> <<"s", "_", "n">>, sub |-> { <<"n", "_", "a">> }] } }

\* the requests that arrive: one whose keys are camelCase already, one with
\* snake_case keys in body (nested too), params and query
RequestInputs ==
  { [body |-> m, params |-> m, query |-> m] : m \in Mappings }

HandlerKinds == {"function", "object"}

\* convertCamelCaseKeysToSnakeCase on one key: an upper-case character becomes
\* an underscore followed by the character in lower case
LowerChar(c) ==
  IF \E i \in 1..Len(Upper) : Upper[i] = c
  THEN Lower[CHOOSE i \in 1..Len(Upper) : Upper[i] = c]
  ELSE c

RECURSIVE CamelToSnake(_)
CamelToSnake(k) ==
  IF k = <<>> THEN <<>>
  ELSE IF LowerChar(k[1]) # k[1]
  THEN <<"_", LowerChar(k[1])>> \o CamelToSnake(Tail(k))
  ELSE <<k[1]>> \o CamelToSnake(Tail(k))

\* convertCamelCaseKeysToSnakeCase on a mapping
convertCamelCaseKeysToSnakeCase(m) ==
  { [key |-> CamelToSnake(e.key), sub |-> { CamelToSnake(k) : k \in e.sub }] : e \in m }

\* what handle() resolves to: nothing (falsy), or { statusCode, body?, headers? }
HandleResults ==
  { Null,
    { [statusCode |-> 200, body |-> { [key |-> <<"s", "N">>, sub |-> { <<"n", "A">> }] },
       headers |-> Null] },
    { [statusCode |-> 201, body |-> { [key |-> <<"a">>, sub |-> {}] },
       headers |-> {"x-h"}] } }

\* the keys handlers pass to setState
StateKeys == {"user"}

NotSeen ==
  [kind |-> "none", pos |-> 0, body |-> {}, params |-> {}, query |-> {},
   state |-> <<>>]

\* what a handler is handed: the request as it stands when it is invoked, and
\* the request's state bag as it stands then
Seen(kind, pos, request, state) ==
  [kind |-> kind, pos |-> pos, body |-> request.body, params |-> request.params,
   query |-> request.query, state |-> state]

\* middlewareAdapter() converting the body and the params but not the query
AdaptRequestButQuery(request) ==
  [request EXCEPT !.body = convertSnakeCaseKeysToCamelCase(request.body),
                  !.params = convertSnakeCaseKeysToCamelCase(request.params)]

\* the first three statements of the closure middlewareAdapter() returns
AdaptRequest(request) ==
  [request EXCEPT !.body = convertSnakeCaseKeysToCamelCase(request.body),
                  !.params = convertSnakeCaseKeysToCamelCase(request.params),
                  !.query = convertSnakeCaseKeysToCamelCase(request.query)]

\* adaptMiddlewares(): what the wrapper of a handler of this kind does to the
\* request before it calls the handler
adaptMiddlewares(kind, request) ==
  IF kind = "function" THEN request ELSE AdaptRequest(request)

\* middlewareAdapter() sending the body of the result as handle() returned it
AdapterResponseUnconverted(pos, result) ==
  IF result = Null THEN <<>>
  ELSE LET httpResponse == CHOOSE r \in result : TRUE
       IN << [pos |-> pos, by |-> "adapter", statusCode |-> httpResponse.statusCode,
              body |-> httpResponse.body, headers |-> httpResponse.headers] >>

\* middlewareAdapter() after handle(): the writes it makes on the response, none
\* for a falsy result, else the headers set and status(...).json(...) sent
AdapterResponse(pos, result) ==
  IF result = Null THEN <<>>
  ELSE LET httpResponse == CHOOSE r \in result : TRUE
       IN << [pos |-> pos, by |-> "adapter", statusCode |-> httpResponse.statusCode,
              body |-> convertCamelCaseKeysToSnakeCase(httpResponse.body),
              headers |-> httpResponse.headers] >>

\* a request's state bag keeping what an earlier request's bag holds
SharedStateCarriedOver(id) ==
  IF id - 1 \in DOMAIN reqs THEN reqs[id - 1].state ELSE <<>>

\* makeSharedStateInitializer(): request[SHARED_STATE_SYMBOL] = {}
makeSharedStateInitializer(id) == <<>>

\* the closure makeSetStateInRequest(request) returns, applied to the bag: every
\* key of the argument is assigned
makeSetStateInRequest(bag, state) ==
  [k \in DOMAIN bag \cup DOMAIN state |-> IF k \in DOMAIN state THEN state[k] ELSE bag[k]]

\* use(handler): one more adapted handler on the application
Use(kind) ==
  /\ Len(appStack) < MaxHandlers
  /\ appStack' = Append(appStack, kind)
  /\ UNCHANGED reqs
  /\ UNCHANGED registryVars

\* a request arrives: the shared-state initializer runs and calls next()
Receive(id, input) ==
  /\ id \notin DOMAIN reqs
  /\ id = Cardinality(DOMAIN reqs) + 1
  /\ reqs' = [j \in DOMAIN reqs \cup {id} |->
                IF j = id
                THEN [raw |-> input, request |-> input, pos |-> 1, pc |-> "next",
                      seen |-> NotSeen, state |-> makeSharedStateInitializer(id),
                      wrote |-> {}, results |-> <<>>, writes |-> <<>>]
                ELSE reqs[j]]
  /\ UNCHANGED appStack
  /\ UNCHANGED registryVars

\* express hands the request to the next handler on the stack: its wrapper
\* prepares the request and calls it with the request's state bag
Invoke(id) ==
  /\ id \in DOMAIN reqs
  /\ reqs[id].pc = "next"
  /\ reqs[id].pos <= Len(appStack)
  /\ LET kind == appStack[reqs[id].pos]
         request == adaptMiddlewares(kind, reqs[id].request)
     IN reqs' = [reqs EXCEPT ![id].request = request,
                             ![id].seen = Seen(kind, reqs[id].pos, request, reqs[id].state),
                             ![id].pc = "handling"]
  /\ UNCHANGED appStack
  /\ UNCHANGED registryVars

\* the handler that is running calls setState({key: value}); the value it
\* stores names its request
SetState(id, key) ==
  /\ id \in DOMAIN reqs
  /\ reqs[id].pc = "handling"
  /\ reqs' = [reqs EXCEPT
                ![id].state = makeSetStateInRequest(reqs[id].state, [k \in {key} |-> id]),
                ![id].wrote = reqs[id].wrote \cup {<<reqs[id].pos, key>>}]
  /\ UNCHANGED appStack
  /\ UNCHANGED registryVars

\* a plain function finishes: it called next(), or wrote a response itself, or
\* did neither
Return(id, outcome) ==
  /\ id \in DOMAIN reqs
  /\ reqs[id].pc = "handling"
  /\ appStack[reqs[id].pos] = "function"
  /\ reqs' = [reqs EXCEPT
                ![id].pc = IF outcome = "next" THEN "next" ELSE "done",
                ![id].pos = IF outcome = "next" THEN reqs[id].pos + 1 ELSE reqs[id].pos,
                ![id].results = Append(reqs[id].results, Null),
                ![id].writes =
                  IF outcome = "respond"
                  THEN Append(reqs[id].writes,
                              [pos |-> reqs[id].pos, by |-> "function", statusCode |-> 200,
                               body |-> {}, headers |-> Null])
                  ELSE reqs[id].writes]
  /\ UNCHANGED appStack
  /\ UNCHANGED registryVars

\* handle() of a Controller/Middleware resolves: the adapter writes the response
\* from the result; the chain goes on if the handler called next()
HandleReturns(id, result, calledNext) ==
  /\ id \in DOMAIN reqs
  /\ reqs[id].pc = "handling"
  /\ appStack[reqs[id].pos] = "object"
  /\ reqs' = [reqs EXCEPT
                ![id].pc = IF calledNext THEN "next" ELSE "done",
                ![id].pos = IF calledNext THEN reqs[id].pos + 1 ELSE reqs[id].pos,
                ![id].results = Append(reqs[id].results, result),
                ![id].writes = reqs[id].writes \o AdapterResponse(reqs[id].pos, result)]
  /\ UNCHANGED appStack
  /\ UNCHANGED registryVars

\* request adaptation: what each handler is handed and what the adapter sends
ReqNext ==
  \/ \E kind \in HandlerKinds : Use(kind)
  \/ \E id \in 1..MaxRequests, input \in RequestInputs : Receive(id, input)
  \/ \E id \in 1..MaxRequests : Invoke(id)
  \/ \E id \in 1..MaxRequests, outcome \in {"next", "respond", "none"} : Return(id, outcome)
  \/ \E id \in 1..MaxRequests, calledNext \in BOOLEAN : HandleReturns(id, Null, calledNext)

ReqSpec == Init /\ [][ReqNext]_vars

\* the responses the adapter writes for what handle() returns
RespNext ==
  \/ \E kind \in HandlerKinds : Use(kind)
  \/ \E id \in 1..MaxRequests :
       Receive(id, [body |-> {}, params |-> {}, query |-> {}])
  \/ \E id \in 1..MaxRequests : Invoke(id)
  \/ \E id \in 1..MaxRequests, outcome \in {"next", "respond"} : Return(id, outcome)
  \/ \E id \in 1..MaxRequests, result \in HandleResults, calledNext \in BOOLEAN :
       HandleReturns(id, result, calledNext)

RespSpec == Init /\ [][RespNext]_vars

\* mounting: every call that registers routers and every call that runs
\* loadRoutes(), refresh() included
MountNext ==
  \/ Route(<<"h">>, <<"/", "x">>)
  \/ RoutesDirectory([kind |-> "none", base |-> Undefined, route |-> 0])
  \/ \E c \in 1..MaxDirCalls : RoutesDirectoryFile(c)
  \/ \E c \in 1..MaxDirCalls : RoutesDirectoryLoad(c)
  \/ GetServer
  \/ Listen(3000, "cbA")
  \/ ListenAsync(3000, "cbA")
  \/ ListenAsyncCreate
  \/ ListenAsyncEventsFile
  \/ ListenAsyncBind
  \/ Refresh
  \/ SetWebSocketServerOptions
  \/ WebSocketServerGetInstance

MountSpec == Init /\ [][MountNext]_vars

\* start-up: onStart() callbacks and the listenAsync() that awaits them
StartNext ==
  \/ \E callbackList \in OnStartArgs : OnStart(callbackList)
  \/ ListenAsync(3000, "cbA")
  \/ \E i \in 1..MaxStartup, outcome \in {"fulfilled", "rejected"} : SettleStartup(i, outcome)
  \/ ListenAsyncCreate
  \/ ListenAsyncEventsFile
  \/ ListenAsyncBind
  \/ SetWebSocketServerOptions
  \/ WebSocketServerGetInstance
  \/ Listen(3001, "cbB")
  \/ Close

StartSpec == Init /\ [][StartNext]_vars

\* the WebSocketServer's event list and the listeners bound from it
WsNext ==
  \/ WebSocketServerGetInstance
  \/ \E name \in EventNames, enabled \in BOOLEAN : Register(name, enabled)
  \/ LoadEvents
  \/ LoadEventsAsync

WsSpec == Init /\ [][WsNext]_vars

\* the state bags of requests handled together
StateNext ==
  \/ \E kind \in HandlerKinds : Use(kind)
  \/ \E id \in 1..MaxRequests :
       Receive(id, [body |-> {}, params |-> {}, query |-> {}])
  \/ \E id \in 1..MaxRequests : Invoke(id)
  \/ \E id \in 1..MaxRequests, key \in StateKeys : SetState(id, key)
  \/ \E id \in 1..MaxRequests : Return(id, "next")
  \/ \E id \in 1..MaxRequests : HandleReturns(id, Null, TRUE)

StateSpec == Init /\ [][StateNext]_vars

\* ----------------------------------------------------------- specifications
\* the server's lifecycle: every way of starting, refreshing and closing it, with
\* routers registered through route() alone
Next ==
  \/ SetWebSocketServerOptions
  \/ \E port \in Ports, callback \in Callbacks : Listen(port, callback)
  \/ GetServer
  \/ \E port \in Ports, callback \in Callbacks : ListenAsync(port, callback)
  \/ ListenAsyncCreate
  \/ ListenAsyncEventsFile
  \/ ListenAsyncBind
  \/ Refresh
  \/ Close
  \/ \E url \in BaseUrlArgs : SetBaseUrl(url)
  \/ WebSocketServerGetInstance
  \/ \E r \in { <<Undefined, Undefined>>, << <<"h">>, <<"/", "x">> >> } : Route(r[1], r[2])

Spec == Init /\ [][Next]_vars

\* route registration: route() and getRoute() against the hidden entries that
\* routesDirectory() adds, interleaved with the calls that mount routers
RouteNext ==
  \/ \E path \in PathArgs, base \in RouteBaseArgs : GetRoute(path, base)
  \/ \E path \in PathArgs, base \in RouteBaseArgs : Route(path, base)
  \/ \E arg1 \in {a \in DirArgs : a.kind \in {"none", "baseUrl"}} : RoutesDirectory(arg1)
  \/ \E c \in 1..MaxDirCalls : RoutesDirectoryFile(c)
  \/ \E c \in 1..MaxDirCalls : RoutesDirectoryLoad(c)
  \/ SetBaseUrl(<<"/", "a">>)
  \/ GetServer
  \/ Listen(3000, "cbA")

RouteSpec == Init /\ [][RouteNext]_vars

\* directory loading: routesDirectory() with each kind of first argument
DirNext ==
  \/ \E base \in RouteBaseArgs : Route(<<"h">>, base)
  \/ \E arg1 \in DirArgs : RoutesDirectory(arg1)
  \/ \E c \in 1..MaxDirCalls : RoutesDirectoryFile(c)
  \/ \E c \in 1..MaxDirCalls : RoutesDirectoryLoad(c)
  \/ SetBaseUrl(<<"/", "a">>)
  \/ GetServer
  \/ Listen(3000, "cbA")

DirSpec == Init /\ [][DirNext]_vars

\* ------------------------------------------------------------------ claims
\* every field of HttpServer and WebSocketServer
serverState ==
  << isStarted, startWebSocketServer, websocketServer, wsInstance, wsConnected,
     listenerOptions, baseUrl, addressInfo, server, listenCount, routers,
     routerStack, mounts, events >>

\* listen() or listenAsync() has been called: the first listen() stores its
\* options before it returns, the first listenAsync() is under way or over
ListenCalled == listenerOptions # Null \/ la.pc # "idle"

\* C1: after a first listen() or listenAsync() call, a listen() or listenAsync()
\* call returns undefined and leaves every field of the server as it was, the
\* stored port/callback included, and Server.listen() is called at most once
\* overall.
C1_ListenIdempotent ==
  /\ [](listenCount <= 1)
  /\ [][(ListenCalled /\ call'.op \in {"listen", "listenAsync"})
          => (call'.ret = "undefined" /\ UNCHANGED serverState /\ UNCHANGED la)]_vars

\* a listen() that returned at the guard while listenAsync() is suspended
C1_Witness ==
  /\ la.pc \in {"startup", "events", "connect"}
  /\ call.op = "listen"
  /\ call.ret = "undefined"

\* C2: after refresh() on a server started by listen() the server is listening.
C2_RefreshRelistens ==
  (call.op = "refresh" /\ isStarted /\ la.pc = "idle") => server = "listening"

\* C3: close() on a server whose start has completed returns without error and
\* leaves the HTTP listener closed.
C3_CloseCompletes ==
  (call.op = "close" /\ isStarted /\ la.pc \in {"idle", "done"})
    => (call.ret = "ok" /\ server = "closed")

\* C4: a listenAsync() that ran with no WebSocket server configured ends with
\* the listener bound, the address recorded and no WebSocket wiring.
C4_ListenAsyncWithoutWebSocket ==
  (la.pc \in {"done", "failed"} /\ ~startWebSocketServer)
    => (la.pc = "done" /\ server = "listening" /\ addressInfo # Null /\ ~wsConnected)

\* the file test the directory loaders are documented to make: the upper-cased
\* name ends in .TS or .JS and contains none of .MAP., .SPEC., .TEST.
ValidHandlerName(fileName) ==
  LET u == ToUpperCase(fileName)
  IN /\ \E i \in 1..Len(extensionsToSearch) : EndsWith(u, extensionsToSearch[i])
     /\ \A i \in 1..Len(ignoreIfIncludes) : ~Includes(u, ignoreIfIncludes[i])

Registered(stack, what) ==
  \E r \in 1..Len(stack) : \E k \in 1..Len(stack[r]) : stack[r][k] = what

\* C5: a file's default export is invoked, so that what it registers appears on
\* a router or in the event list, only if the file's name passes the file test.
C5_OnlyValidFilesRegister ==
  /\ \A i \in 1..Len(RouteFiles) :
       Registered(routerStack, RouteFiles[i].registers)
         => ValidHandlerName(RouteFiles[i].name)
  /\ \A i \in 1..Len(EventFiles) :
       (\E k \in 1..Len(events) : events[k].name = EventFiles[i].registers)
         => ValidHandlerName(EventFiles[i].name)

SamePair(e, path, base) == e.path = path /\ e.baseUrl = base

\* C6: the router list holds at most one non-hidden entry per (path, baseUrl),
\* no two entries share a router, what route()/getRoute() return is the router of
\* a non-hidden entry with the pair asked for, and route() for a pair that has
\* a non-hidden entry returns that entry's router and adds no entry.
C6_OneRouterPerPair ==
  /\ [](/\ \A i, j \in 1..Len(routers) :
             (/\ ~routers[i].hidden /\ ~routers[j].hidden
              /\ SamePair(routers[i], routers[j].path, routers[j].baseUrl)) => i = j
        /\ \A i, j \in 1..Len(routers) : routers[i].router = routers[j].router => i = j
        /\ (call.op \in {"route", "getRoute"} /\ call.ret = "route")
             => \E i \in 1..Len(routers) :
                  /\ routers[i].router = call.router
                  /\ ~routers[i].hidden
                  /\ SamePair(routers[i], call.url, call.base))
  /\ [][call'.op = "route"
          => \A i \in 1..Len(routers) :
               (~routers[i].hidden /\ SamePair(routers[i], call'.url, call'.base))
                 => (routers' = routers /\ call'.router = routers[i].router)]_vars

\* route() was asked for the pair of a hidden entry and returned another router
C6_Witness ==
  /\ call.op = "route"
  /\ \E i \in 1..Len(routers) :
       /\ routers[i].hidden
       /\ SamePair(routers[i], call.url, call.base)
       /\ routers[i].router # call.router
  /\ \E i \in 1..Len(routers) : ~routers[i].hidden /\ routers[i].router = call.router

PathOf(r) == Coalesce(routers[CHOOSE i \in 1..Len(routers) : routers[i].router = r].path, <<>>)

\* C7: with the base URL b that was set before the server was obtained or
\* started still in force, every mounted router that was registered without an
\* explicit baseUrl is mounted at the normalised URL b/path.
C7_BaseUrlPrefixesImplicit ==
  (servedBase # Null /\ servedBase = {baseUrl})
    => \A k \in 1..Len(mounts) :
         mounts[k].router \in implicitBase
           => mounts[k].url = MountUrl(baseUrl, PathOf(mounts[k].router))

\* how many times the endpoint is reachable on the application: once per layer
\* holding it on each mounted router
MountedCount(endpoint) ==
  Cardinality(UNION { { <<k, n>> : n \in { m \in 1..Len(routerStack[mounts[k].router]) :
                                            routerStack[mounts[k].router][m] = endpoint } } :
                      k \in 1..Len(mounts) })

\* C8: however often routesDirectory() ran, the endpoint of a discovered module
\* is mounted on the application at most once.
C8_EndpointMountedOnce == MountedCount("health") <= 1

\* C9: once listen() or listenAsync() has been called, a setBaseUrl(url) call
\* only warns and leaves the base URL and the mounts as they were; before that
\* it sets the base URL to url.
C9_SetBaseUrlFrame ==
  [][call'.op = "setBaseUrl"
       => IF ListenCalled
          THEN call'.ret = "warn" /\ baseUrl' = baseUrl /\ mounts' = mounts
          ELSE call'.ret = "ok" /\ baseUrl' = call'.url]_vars

\* setBaseUrl() was refused on a started server that has a router mounted
C9_Witness ==
  /\ call.op = "setBaseUrl"
  /\ call.ret = "warn"
  /\ mounts # <<>>
  /\ baseUrl # call.url

IsAdapted(seen, raw) ==
  /\ seen.body = convertSnakeCaseKeysToCamelCase(raw.body)
  /\ seen.params = convertSnakeCaseKeysToCamelCase(raw.params)
  /\ seen.query = convertSnakeCaseKeysToCamelCase(raw.query)

\* C10 as stated: whatever its shape, a handler that is invoked is handed the
\* body, params and query with their keys converted to camelCase.
C10_EveryHandlerSeesCamelCase ==
  \A id \in DOMAIN reqs :
    reqs[id].seen.kind # "none" => IsAdapted(reqs[id].seen, reqs[id].raw)

\* C10 amended: a Controller/Middleware-shaped handler is handed the body,
\* params and query with their keys converted to camelCase; a plain function
\* that only plain functions precede is handed them as they arrived.
C10_ObjectHandlerSeesCamelCase ==
  \A id \in DOMAIN reqs :
    LET seen == reqs[id].seen
    IN /\ seen.kind = "object" => IsAdapted(seen, reqs[id].raw)
       /\ (seen.kind = "function" /\ \A k \in 1..seen.pos : appStack[k] = "function")
            => /\ seen.body = reqs[id].raw.body
               /\ seen.params = reqs[id].raw.params
               /\ seen.query = reqs[id].raw.query

\* an object-shaped handler was handed a body, params and query that all
\* differ from what arrived
C10_Witness ==
  \E id \in DOMAIN reqs :
    /\ reqs[id].seen.kind = "object"
    /\ reqs[id].seen.body # reqs[id].raw.body
    /\ reqs[id].seen.params # reqs[id].raw.params
    /\ reqs[id].seen.query # reqs[id].raw.query

\* the responses the adapter wrote for the handler at one position of a request
AdapterWrites(r, p) ==
  SelectSeq(r.writes, LAMBDA w : w.pos = p /\ w.by = "adapter")

\* C11: for a Controller/Middleware handler that has returned, the adapter wrote
\* nothing when handle() returned a falsy value, and otherwise wrote exactly one
\* response, with the result's headers, the result's statusCode and the result's
\* body with its keys in snake_case
C11_AdapterWritesIffTruthy ==
  \A id \in DOMAIN reqs :
    \A p \in 1..Len(reqs[id].results) :
      appStack[p] = "object" =>
        IF reqs[id].results[p] = Null
        THEN AdapterWrites(reqs[id], p) = <<>>
        ELSE \E h \in reqs[id].results[p] :
               AdapterWrites(reqs[id], p) =
                 << [pos |-> p, by |-> "adapter", statusCode |-> h.statusCode,
                     body |-> convertCamelCaseKeysToSnakeCase(h.body),
                     headers |-> h.headers] >>

\* one request whose first handler returned nothing and whose second returned
\* a result with a camelCase body, sent in snake_case
C11_Witness ==
  \E id \in DOMAIN reqs :
    /\ Len(reqs[id].results) = 2
    /\ appStack[1] = "object" /\ appStack[2] = "object"
    /\ reqs[id].results[1] = Null
    /\ reqs[id].results[2] # Null
    /\ reqs[id].writes =
         << [pos |-> 2, by |-> "adapter", statusCode |-> 200,
             body |-> { [key |-> <<"s", "_", "n">>, sub |-> { <<"n", "_", "a">> }] },
             headers |-> Null] >>

\* C12: a request's state bag is empty until one of its own handlers writes to
\* it, holds only values its own handlers stored, and a handler is handed every
\* key an earlier handler of the same request stored
C12_StateBagPerRequest ==
  \A id \in DOMAIN reqs :
    /\ reqs[id].wrote = {} => reqs[id].state = <<>>
    /\ \A k \in DOMAIN reqs[id].state : reqs[id].state[k] = id
    /\ \A w \in reqs[id].wrote :
         w[1] < reqs[id].seen.pos =>
           /\ w[2] \in DOMAIN reqs[id].seen.state
           /\ reqs[id].seen.state[w[2]] = id

\* two requests in flight that hold different values under the same key, the
\* second request's second handler handed what its first handler stored
C12_Witness ==
  /\ {1, 2} \subseteq DOMAIN reqs
  /\ reqs[1].state = [k \in {"user"} |-> 1]
  /\ reqs[1].pc = "handling"
  /\ reqs[2].seen.pos = 2
  /\ <<1, "user">> \in reqs[2].wrote
  /\ reqs[2].seen.state = [k \in {"user"} |-> 2]

\* C13: a register() call with enabled false leaves the event list and the
\* listeners as they were, a call with enabled true appends exactly one
\* descriptor, and every listener bound is for a stored, enabled descriptor
C13_DisabledNeverBound ==
  /\ [](\A j \in 1..Len(wsListeners) :
          \E i \in 1..Len(events) :
            events[i].name = wsListeners[j].name /\ events[i].enabled)
  /\ [][call'.op = "register" =>
          IF call'.ret = "disabled"
          THEN events' = events /\ wsListeners' = wsListeners
          ELSE events' = Append(events, [name |-> call'.url[1], enabled |-> TRUE])]_vars

\* "off" was registered disabled and "ev" enabled, the events were loaded, and
\* only "ev" has a listener
C13_Witness ==
  /\ call.op = "register" /\ call.ret = "disabled" /\ call.url = <<"off">>
  /\ Len(events) = 1 /\ events[1].name = "ev"
  /\ Len(wsListeners) = 1 /\ wsListeners[1].name = "ev"

\* C14 as stated: every stored descriptor has at most one listener bound
C14_OneListenerPerDescriptor ==
  \A i \in 1..Len(events) :
    Cardinality({ j \in 1..Len(wsListeners) : wsListeners[j].descriptor = i }) <= 1

\* C15 as stated, for the event descriptors: when listenAsync() has completed
\* with a WebSocket server configured, every stored event descriptor has a
\* listener bound
C15_EventsBoundWhenStarted ==
  (la.pc = "done" /\ startWebSocketServer) =>
    \A i \in 1..Len(events) :
      \E j \in 1..Len(wsListeners) : wsListeners[j].descriptor = i

\* C16 as stated: once a listener is bound, no step adds an entry to the
\* router list or to the event list
C16_ListsFrozenOnceListening ==
  [][server = "listening" =>
       Len(routers') = Len(routers) /\ Len(events') = Len(events)]_vars

\* C17: no step removes a router entry or replaces its router, a loaded flag
\* that is true stays true, and no router is mounted on the application more
\* than once
C17_RouterEntriesStable ==
  /\ [](\A i \in 1..Len(routers) :
          Cardinality({ k \in 1..Len(mounts) : mounts[k].router = routers[i].router }) <= 1)
  /\ [][/\ Len(routers') >= Len(routers)
        /\ \A i \in 1..Len(routers) :
             /\ routers'[i].router = routers[i].router
             /\ routers[i].loaded => routers'[i].loaded]_vars

\* getServer() ran loadRoutes() again after the server was started and
\* refreshed, and both entries are loaded and mounted once each
C17_Witness ==
  /\ call.op = "getServer"
  /\ server = "closed"
  /\ Len(routers) = 2
  /\ \A i \in 1..Len(routers) : routers[i].loaded
  /\ Len(mounts) = 2

\* C18: listenAsync() makes one promise per startup callback registered when
\* it is called, and while one of them is not fulfilled the call has not gone
\* past its await: no server is created and no port is bound
C18_BindAfterStartupCallbacks ==
  /\ []((la.pc # "idle" /\ \E i \in 1..Len(promises) : promises[i].status # "fulfilled")
          => /\ la.pc \in {"startup", "failed"}
             /\ server = "undefined"
             /\ listenCount = 0)
  /\ [][(call'.op = "listenAsync" /\ call'.ret = "pending")
          => /\ Len(promises') = Len(startupCallbacks)
             /\ \A i \in 1..Len(promises') :
                  promises'[i] = [callback |-> startupCallbacks[i], status |-> "pending"]]_vars

\* listenAsync() bound the port after both startup callbacks were fulfilled
C18_Witness ==
  /\ la.pc = "done"
  /\ server = "listening"
  /\ Len(promises) = 2
  /\ \A i \in 1..Len(promises) : promises[i].status = "fulfilled"

\* C19 as stated: once listenAsync() has been called, every callback that was
\* passed to onStart() before it has been invoked exactly once
C19_EveryRegisteredCallbackInvoked ==
  la.pc # "idle" =>
    \A cb \in onStartRegistered :
      Cardinality({ i \in 1..Len(promises) : promises[i].callback = cb }) = 1

\* C20 as stated: when the server is marked started and no listen()/listenAsync()
\* is in progress, a listener has been bound
C20_StartedMeansBound ==
  (isStarted /\ la.pc \notin {"startup", "events", "connect"}) => listenCount >= 1

====
